---- MODULE Spec2Model ----
(***************************************************************************)
(* Rate-limit header decoding (crate rate-limits).                         *)
(*                                                                         *)
(* A header store (CaseSensitiveHeaderMap) is filled by insert, and the    *)
(* resolvers rfc6585::RateLimit::new and retryafter::RateLimit::new are    *)
(* applied to it.  Header names are strings compared exactly; header       *)
(* values are sequences of one-character strings, so that trimming and     *)
(* integer parsing are computed, digit by digit, the way str::trim and     *)
(* str::parse compute them.  Machine integers keep their width: a usize    *)
(* is a little-endian tuple of 16-bit limbs, UsizeBits bits in all.        *)
(***************************************************************************)
EXTENDS Integers, Sequences, FiniteSets, TLC

VARIABLES
    registry,   \* RATE_LIMIT_HEADERS: the Vec<RateLimitVariant> behind the mutex
    poisoned,   \* whether the registry mutex is poisoned
    headers,    \* the CaseSensitiveHeaderMap under construction / passed to new
    pc,         \* "build" while the store is filled, "done" after a resolver ran
    call,       \* which resolver produced `result`
    result,     \* what the resolver returned (or that it aborted)
    trace,      \* which header each lookup of rfc6585::RateLimit::new matched
    now,        \* OffsetDateTime::now_utc(), in Unix seconds
    overflow_checks,  \* the build profile: whether integer overflow aborts
    raw,        \* a raw header block (&str), as a sequence of characters
    http_headers,   \* an http::HeaderMap under construction / passed to new
    inserted,   \* the names HeaderMap::insert was called with, as the caller wrote them
    observed,   \* what a method of the returned ResetTime gave the caller
    threads,    \* the calls of RateLimit::new running on several threads, each with
                \* its position, its store, its local variables and its result
    mutex       \* the Lazy<Mutex<..>>: whether the cell is initialised, who holds the lock

vars == <<registry, poisoned, headers, pc, call, result, trace, now, overflow_checks,
          raw, http_headers, inserted, observed, threads, mutex>>

-----------------------------------------------------------------------------
(* Machine integers                                                        *)

\* usize on the 64-bit targets the crate is built for
UsizeBits == 64

\* four limbs to a usize
LimbBits == UsizeBits \div 4
LimbBase == 2^LimbBits

\* a usize value: UsizeBits \div LimbBits limbs, least significant first
Limbs == [1..4 -> 0..(LimbBase - 1)]

\* n < 2^31 as a usize
FromNat(n) == <<n % LimbBase, n \div LimbBase, 0, 0>>

UsizeZero == FromNat(0)
UsizeMax == <<LimbBase - 1, LimbBase - 1, LimbBase - 1, LimbBase - 1>>

\* The limb operations are functions, so that an argument is evaluated once, before
\* the limbs of it are read.

\* -1, 0 or 1 as a < b, a = b, a > b
LimbCmp[a \in Limbs, b \in Limbs] ==
    IF a[4] # b[4] THEN (IF a[4] < b[4] THEN -1 ELSE 1)
    ELSE IF a[3] # b[3] THEN (IF a[3] < b[3] THEN -1 ELSE 1)
    ELSE IF a[2] # b[2] THEN (IF a[2] < b[2] THEN -1 ELSE 1)
    ELSE IF a[1] # b[1] THEN (IF a[1] < b[1] THEN -1 ELSE 1)
    ELSE 0

\* a + b on UsizeBits bits: the wrapped sum and the carry out of the top limb
LimbAdd[a \in Limbs, b \in Limbs] ==
    LET s1 == a[1] + b[1]
        s2 == a[2] + b[2] + (s1 \div LimbBase)
        s3 == a[3] + b[3] + (s2 \div LimbBase)
        s4 == a[4] + b[4] + (s3 \div LimbBase)
    IN  [val |-> <<s1 % LimbBase, s2 % LimbBase, s3 % LimbBase, s4 % LimbBase>>,
         carry |-> s4 \div LimbBase]

\* a - b on UsizeBits bits: the wrapped difference and the borrow
LimbSub[a \in Limbs, b \in Limbs] ==
    LET d1 == a[1] - b[1]
        b1 == IF d1 < 0 THEN 1 ELSE 0
        d2 == a[2] - b[2] - b1
        b2 == IF d2 < 0 THEN 1 ELSE 0
        d3 == a[3] - b[3] - b2
        b3 == IF d3 < 0 THEN 1 ELSE 0
        d4 == a[4] - b[4] - b3
        b4 == IF d4 < 0 THEN 1 ELSE 0
    IN  [val |-> <<d1 + b1 * LimbBase, d2 + b2 * LimbBase,
                   d3 + b3 * LimbBase, d4 + b4 * LimbBase>>,
         borrow |-> b4]

\* a * 10 + d, a step of decimal parsing: the wrapped value and the carry out of
\* the top limb
LimbMulAdd10[a \in Limbs, d \in 0..9] ==
    LET t1 == a[1] * 10 + d
        t2 == a[2] * 10 + (t1 \div LimbBase)
        t3 == a[3] * 10 + (t2 \div LimbBase)
        t4 == a[4] * 10 + (t3 \div LimbBase)
    IN  [val |-> <<t1 % LimbBase, t2 % LimbBase, t3 % LimbBase, t4 % LimbBase>>,
         carry |-> t4 \div LimbBase]

\* an i64 as sign and magnitude
I64(neg, mag) == [neg |-> neg /\ mag # UsizeZero, mag |-> mag]

\* 2^63 - 1 and 2^63
I64MaxMag == <<LimbBase - 1, LimbBase - 1, LimbBase - 1, (LimbBase \div 2) - 1>>
I64MinMag == <<0, 0, 0, LimbBase \div 2>>

\* a - b for two i64 whose difference fits an i64
I64Sub(a, b) ==
    IF a.neg # b.neg
    THEN I64(a.neg, LimbAdd[a.mag, b.mag].val)
    ELSE IF LimbCmp[a.mag, b.mag] >= 0
         THEN I64(a.neg, LimbSub[a.mag, b.mag].val)
         ELSE I64(~a.neg, LimbSub[b.mag, a.mag].val)

\* -1, 0 or 1 as a < b, a = b, a > b
I64Cmp(a, b) ==
    IF a.neg # b.neg THEN (IF a.neg THEN -1 ELSE 1)
    ELSE IF a.neg THEN LimbCmp[b.mag, a.mag] ELSE LimbCmp[a.mag, b.mag]

\* `x as usize`: two's complement on UsizeBits bits
I64AsUsize(x) ==
    IF x.neg THEN LimbSub[UsizeZero, x.mag].val ELSE x.mag

-----------------------------------------------------------------------------
(* Results                                                                 *)

Ok(v) == [ok |-> TRUE, val |-> v]
Err(e) == [ok |-> FALSE, err |-> e]

\* `let x = e; F(x)`: e is evaluated once
Let(e, F(_)) == CHOOSE r \in {F(x) : x \in {e}} : TRUE

\* `F(e?)`: an Err of e is returned as it is
Try(e, F(_)) == CHOOSE r \in {IF x.ok THEN F(x.val) ELSE x : x \in {e}} : TRUE

-----------------------------------------------------------------------------
(* convert.rs: str::trim and str::parse                                    *)

Whitespace == {" ", "\t"}
Digits == {"0", "1", "2", "3", "4", "5", "6", "7", "8", "9"}
DigitVal == ("0" :> 0) @@ ("1" :> 1) @@ ("2" :> 2) @@ ("3" :> 3) @@ ("4" :> 4)
         @@ ("5" :> 5) @@ ("6" :> 6) @@ ("7" :> 7) @@ ("8" :> 8) @@ ("9" :> 9)

RECURSIVE TrimStart(_)
TrimStart(s) ==
    IF s # <<>> /\ Head(s) \in Whitespace THEN TrimStart(Tail(s)) ELSE s

RECURSIVE TrimEnd(_)
TrimEnd(s) ==
    IF s # <<>> /\ s[Len(s)] \in Whitespace
    THEN TrimEnd(SubSeq(s, 1, Len(s) - 1))
    ELSE s

Trim(s) == TrimEnd(TrimStart(s))

\* the digit loop of from_str_radix: checked_mul(10) then checked_add(digit)
RECURSIVE ParseDigits(_, _)
ParseDigits(s, acc) ==
    IF s = <<>> THEN Ok(acc)
    ELSE IF Head(s) \notin Digits THEN Err("InvalidValue")
    ELSE Let(LimbMulAdd10[acc, DigitVal[Head(s)]], LAMBDA next :
             IF next.carry # 0 THEN Err("InvalidValue")
             ELSE Let(Tail(s), LAMBDA rest : ParseDigits(rest, next.val)))

\* str::parse::<usize>: an optional "+", then at least one digit
ParseUsize(s) ==
    IF s = <<>> THEN Err("InvalidValue")
    ELSE IF Head(s) \in {"+", "-"} /\ Len(s) = 1 THEN Err("InvalidValue")
    ELSE IF Head(s) = "+" THEN ParseDigits(Tail(s), UsizeZero)
    ELSE ParseDigits(s, UsizeZero)

\* str::parse::<i64>: an optional sign, then at least one digit
ParseI64(s) ==
    IF s = <<>> THEN Err("InvalidValue")
    ELSE IF Head(s) \in {"+", "-"} /\ Len(s) = 1 THEN Err("InvalidValue")
    ELSE LET neg == Head(s) = "-"
             body == IF Head(s) \in {"+", "-"} THEN Tail(s) ELSE s
         IN  Try(ParseDigits(body, UsizeZero), LAMBDA mag :
                 IF LimbCmp[mag, IF neg THEN I64MinMag ELSE I64MaxMag] > 0
                 THEN Err("InvalidValue")
                 ELSE Ok(I64(neg, mag)))

\* a conversion that parses the value as it is, without the trim
to_usize_untrimmed(value) == ParseUsize(value)

to_usize(value) == Let(Trim(value), LAMBDA s : ParseUsize(s))

to_i64(value) == Let(Trim(value), LAMBDA s : ParseI64(s))

-----------------------------------------------------------------------------
(* headers/types.rs: Option, Vendor, RateLimitVariant, Limit, Used,        *)
(* Remaining                                                               *)

Some(x) == [some |-> TRUE, val |-> x]
None == [some |-> FALSE]

Vendor == {"Standard", "Reddit", "Github", "Twitter", "Vimeo", "Gitlab", "Akamai"}

ResetTimeKind == {"Seconds", "Timestamp", "ImfFixdate", "Iso8601"}

\* RateLimitVariant::new; a Duration is its whole seconds
\* a constructor that takes the two header names of the same type in the other order
RateLimitVariant_names_swapped(vendor, duration, limit_header, used_header, remaining_header, reset_header, reset_kind) ==
    [vendor |-> vendor, duration |-> duration, limit_header |-> limit_header,
     used_header |-> used_header, remaining_header |-> reset_header,
     reset_header |-> remaining_header, reset_kind |-> reset_kind]

\* a constructor that leaves the limit header out
RateLimitVariant_without_limit(vendor, duration, limit_header, used_header, remaining_header, reset_header, reset_kind) ==
    [vendor |-> vendor, duration |-> duration, limit_header |-> None,
     used_header |-> used_header, remaining_header |-> remaining_header,
     reset_header |-> reset_header, reset_kind |-> reset_kind]

RateLimitVariant(vendor, duration, limit_header, used_header, remaining_header, reset_header, reset_kind) ==
    [vendor |-> vendor, duration |-> duration, limit_header |-> limit_header,
     used_header |-> used_header, remaining_header |-> remaining_header,
     reset_header |-> reset_header, reset_kind |-> reset_kind]

Limit_new(value) ==
    Try(to_usize(value), LAMBDA n : Ok([count |-> n]))

Used_new(value) ==
    Try(to_usize(value), LAMBDA n : Ok([count |-> n]))

Remaining_new(value) ==
    Try(to_usize(value), LAMBDA n : Ok([count |-> n]))

-----------------------------------------------------------------------------
(* variants.rs: the registry                                               *)

\* a lookup that takes the entries out of the Vec as it walks it (drain for iter)
variants_drain(variants) == << >>

\* RATE_LIMIT_HEADERS.lock() of a lookup, then variants.iter(): the entries are
\* borrowed one after the other and the Vec behind the guard is left as it was
variants_iter(variants) == variants

RATE_LIMIT_HEADERS ==
    << RateLimitVariant("Standard", None, Some("RateLimit-Limit"), None,
                        "Ratelimit-Remaining", "Ratelimit-Reset", "Seconds"),
       RateLimitVariant("Reddit", Some(10 * 60), None, Some("X-Ratelimit-Used"),
                        "X-Ratelimit-Remaining", "X-Ratelimit-Reset", "Seconds"),
       RateLimitVariant("Github", Some(3600), Some("x-ratelimit-limit"), None,
                        "x-ratelimit-remaining", "x-ratelimit-reset", "Timestamp"),
       RateLimitVariant("Twitter", Some(15 * 60), Some("x-rate-limit-limit"), None,
                        "x-rate-limit-remaining", "x-rate-limit-reset", "Timestamp"),
       RateLimitVariant("Vimeo", Some(60), Some("X-RateLimit-Limit"), None,
                        "X-RateLimit-Remaining", "X-RateLimit-Reset", "ImfFixdate"),
       RateLimitVariant("Gitlab", Some(60), Some("RateLimit-Limit"),
                        Some("RateLimit-Observed"),
                        "RateLimit-Remaining", "RateLimit-Reset", "Timestamp"),
       RateLimitVariant("Akamai", Some(60), Some("X-RateLimit-Limit"), None,
                        "X-RateLimit-Remaining", "X-RateLimit-Next", "Iso8601") >>

-----------------------------------------------------------------------------
(* casesensitive_headermap.rs: the header store                            *)

\* CaseSensitiveHeaderMap::new
EmptyHeaderMap == << >>

\* CaseSensitiveHeaderMap::insert: HashMap::insert replaces the value of an equal key
HeaderMapInsert(map, name, value) ==
    [k \in (DOMAIN map) \cup {name} |-> IF k = name THEN value ELSE map[k]]

\* the header names of the model that are equal up to letter case
SameLetters == {{"Ratelimit-Remaining", "RateLimit-Remaining"},
                {"Ratelimit-Reset", "RateLimit-Reset"},
                {"x-ratelimit-limit", "X-RateLimit-Limit"},
                {"X-Ratelimit-Remaining", "x-ratelimit-remaining",
                 "X-RateLimit-Remaining", "X-RATELIMIT-REMAINING"},
                {"X-Ratelimit-Reset", "x-ratelimit-reset", "X-RateLimit-Reset"},
                {"Retry-After", "retry-after", "RETRY-AFTER"}}

\* a get that compares the names as HTTP does, ignoring letter case
HeaderMapGet_ignore_case(map, k) ==
    LET same == {n \in DOMAIN map : n = k \/ \E c \in SameLetters : n \in c /\ k \in c}
    IN  IF same # {} THEN Some(map[CHOOSE n \in same : TRUE]) ELSE None

\* CaseSensitiveHeaderMap::get: HashMap<String, _>::get, equality of the key strings
HeaderMapGet(map, k) ==
    IF k \in DOMAIN map THEN Some(map[k]) ELSE None

\* HEADER_SEPARATOR
HEADER_SEPARATOR == ":"

\* str::lines: the block is cut at each "\n", a final empty piece is no line
RECURSIVE SplitLines(_, _)
SplitLines(s, line) ==
    IF s = << >> THEN (IF line = << >> THEN << >> ELSE <<line>>)
    ELSE IF Head(s) = "\n" THEN <<line>> \o SplitLines(Tail(s), << >>)
    ELSE SplitLines(Tail(s), Append(line, Head(s)))

Lines(s) == SplitLines(s, << >>)

\* the position of the first separator of a line, 0 if it has none
RECURSIVE FindSeparator(_, _)
FindSeparator(line, i) ==
    IF i > Len(line) THEN 0
    ELSE IF line[i] = HEADER_SEPARATOR THEN i
    ELSE FindSeparator(line, i + 1)

\* a header name is one element of a line: the text before the separator, as the
\* String that becomes the key (the empty text when nothing precedes the separator)
NameText(prefix) == IF prefix = << >> THEN "" ELSE prefix[1]

\* str::split_once(HEADER_SEPARATOR): the text before and after the first separator
split_once(line) ==
    Let(FindSeparator(line, 1), LAMBDA i :
        IF i = 0 THEN None
        ELSE Some([name |-> NameText(SubSeq(line, 1, i - 1)),
                   value |-> SubSeq(line, i + 1, Len(line))]))

\* the characters HeaderValue::from_str refuses: control characters other than tab
ControlChars == {"\r", "\f"}

\* HeaderValue::from_str
HeaderValue_from_str(value) ==
    IF \E i \in DOMAIN value : value[i] \in ControlChars
    THEN Err("InvalidHeaderValue")
    ELSE Ok(value)

\* the collect() of CaseSensitiveHeaderMap::from_str, line by line: a line without
\* separator is dropped by filter_map, a value HeaderValue::from_str refuses makes
\* the unwrap() abort
RECURSIVE CollectLines(_, _)
CollectLines(lines, map) ==
    IF lines = << >> THEN Ok(map)
    ELSE Let(split_once(Head(lines)), LAMBDA kv :
        IF ~kv.some THEN CollectLines(Tail(lines), map)
        ELSE Let(HeaderValue_from_str(Trim(kv.val.value)), LAMBDA value :
            IF ~value.ok THEN [ok |-> FALSE, err |-> "abort"]
            ELSE CollectLines(Tail(lines),
                              HeaderMapInsert(map, kv.val.name, value.val))))

\* <CaseSensitiveHeaderMap as FromStr>::from_str
CaseSensitiveHeaderMap_from_str(block) == CollectLines(Lines(block), EmptyHeaderMap)

\* the lower-case form of the header names the model inserts into an http::HeaderMap
ToLowerCase ==
    [n \in {"X-RATELIMIT-LIMIT", "X-RateLimit-Limit", "x-ratelimit-limit"} |-> "x-ratelimit-limit"]
    @@ [n \in {"X-RATELIMIT-REMAINING", "X-RateLimit-Remaining", "x-ratelimit-remaining"}
          |-> "x-ratelimit-remaining"]
    @@ [n \in {"X-RATELIMIT-RESET", "X-RateLimit-Reset", "x-ratelimit-reset"} |-> "x-ratelimit-reset"]
    @@ [n \in {"Retry-After", "RETRY-AFTER", "retry-after"} |-> "retry-after"]

\* a header name kept in the letter case it was written in
HeaderName_from_str_as_written(name) ==
    IF name = "" THEN Err("InvalidHeaderName") ELSE Ok(name)

\* HeaderName::from_str (and the IntoHeaderName of HeaderMap::insert): the name is
\* stored in lower case; an empty name is refused
HeaderName_from_str(name) ==
    IF name = "" THEN Err("InvalidHeaderName") ELSE Ok(ToLowerCase[name])

\* http::HeaderMap::insert: the value replaces that of an equal (lower-case) name
HttpHeaderMapInsert(map, name, value) ==
    HeaderMapInsert(map, HeaderName_from_str(name).val, value)

\* the loop of HeaderMapExt::from_raw, line by line
RECURSIVE FromRawLines(_, _)
FromRawLines(lines, map) ==
    IF lines = << >> THEN Ok(map)
    ELSE Let(split_once(Head(lines)), LAMBDA kv :
        IF ~kv.some THEN [ok |-> FALSE, err |-> "HeaderWithoutColon", line |-> Head(lines)]
        ELSE Try(HeaderName_from_str(kv.val.name), LAMBDA name :
             Try(HeaderValue_from_str(Trim(kv.val.value)), LAMBDA value :
                 FromRawLines(Tail(lines), HeaderMapInsert(map, name, value)))))

\* <HeaderMap as HeaderMapExt>::from_raw
HeaderMap_from_raw(block) == FromRawLines(Lines(block), << >>)

\* <CaseSensitiveHeaderMap as From<HeaderMap>>::from (and From<&HeaderMap>): each
\* name.as_str() and a clone of its value are inserted
CaseSensitiveHeaderMap_from_HeaderMap(map) ==
    [name \in DOMAIN map |-> map[name]]

-----------------------------------------------------------------------------
(* reset_time.rs: ResetTime                                                *)

Seconds(n) == [kind |-> "Seconds", n |-> n]
DateTime(d) == [kind |-> "DateTime", d |-> d]

HttpDateSample == <<"T", "u", "e", ",", " ", "1", "5", " ", "N", "o", "v", " ", "1", "9", "9", "4", " ", "0", "8", ":", "1", "2", ":", "3", "1", " ", "G", "M", "T">>
IsoDateSample == <<"2", "0", "2", "1", "-", "0", "1", "-", "0", "5", "T", "1", "1", ":", "0", "0", ":", "0", "0", "Z">>

\* PrimitiveDateTime::parse(value, &Rfc2822) and assume_utc, as Unix seconds: the
\* grammar is the time crate's; the model knows the one date it is given
ParseRfc2822(value) ==
    IF value = HttpDateSample THEN Ok(I64(FALSE, FromNat(784887151))) ELSE Err("Parse")

\* PrimitiveDateTime::parse(value, &Iso8601::PARSING) and assume_utc, likewise
ParseIso8601(value) ==
    IF value = IsoDateSample THEN Ok(I64(FALSE, FromNat(1609844400))) ELSE Err("Parse")

\* OffsetDateTime::from_unix_timestamp: years -9999 to 9999, else ComponentRange
MinTimestampMag == <<46208, 61690, 87, 0>>
MaxTimestampMag == <<16767, 65524, 58, 0>>

from_unix_timestamp(t) ==
    IF LimbCmp[t.mag, IF t.neg THEN MinTimestampMag ELSE MaxTimestampMag] > 0
    THEN Err("Time")
    ELSE Ok(t)

\* ResetTime::new
ResetTime_new(value, kind) ==
    CASE kind = "Seconds" ->
            Try(to_usize(value), LAMBDA n : Ok(Seconds(n)))
      [] kind = "Timestamp" ->
            Try(to_i64(value), LAMBDA t :
                Try(from_unix_timestamp(t), LAMBDA d : Ok(DateTime(d))))
      [] kind = "Iso8601" ->
            Try(ParseIso8601(value), LAMBDA d : Ok(DateTime(d)))
      [] kind = "ImfFixdate" ->
            Try(ParseRfc2822(value), LAMBDA d : Ok(DateTime(d)))

\* ResetTime::seconds, called at the instant `at` (Unix seconds)
ResetTime_seconds(reset, at) ==
    IF reset.kind = "Seconds" THEN reset.n
    ELSE I64AsUsize(I64Sub(reset.d, I64(FALSE, FromNat(at))))

\* Ord of the two discriminants of the enum: Seconds is declared before DateTime
Discriminant(reset) == IF reset.kind = "Seconds" THEN 0 ELSE 1

Ordering(c) == IF c < 0 THEN "Less" ELSE IF c > 0 THEN "Greater" ELSE "Equal"

\* #[derive(PartialOrd)] of ResetTime: the discriminants are compared first, the
\* payloads (usize, OffsetDateTime) when the two values are of the same variant
ResetTime_partial_cmp(a, b) ==
    IF Discriminant(a) # Discriminant(b)
    THEN Some(Ordering(Discriminant(a) - Discriminant(b)))
    ELSE IF a.kind = "Seconds" THEN Some(Ordering(LimbCmp[a.n, b.n]))
    ELSE Some(Ordering(I64Cmp(a.d, b.d)))

-----------------------------------------------------------------------------
(* rfc6585/mod.rs: the structured resolver                                 *)

\* the least element of a non-empty set of indices: the first hit of a `for` loop
First(hits) == CHOOSE i \in hits : \A j \in hits : i <= j

\* RateLimit::get_rate_limit_header: the value, and a clone of the variant
get_rate_limit_header(header_map) ==
    IF poisoned THEN Err("Lock")
    ELSE Let({i \in DOMAIN registry :
                /\ registry[i].limit_header.some
                /\ HeaderMapGet(header_map, registry[i].limit_header.val).some},
             LAMBDA hits :
                IF hits = {} THEN Err("MissingLimit")
                ELSE Let(registry[First(hits)], LAMBDA variant :
                        Ok([value |-> HeaderMapGet(header_map, variant.limit_header.val).val,
                            variant |-> variant])))

\* RateLimit::get_used_header
get_used_header(header_map) ==
    IF poisoned THEN Err("Lock")
    ELSE Let({i \in DOMAIN registry :
                /\ registry[i].used_header.some
                /\ HeaderMapGet(header_map, registry[i].used_header.val).some},
             LAMBDA hits :
                IF hits = {} THEN Err("MissingUsed")
                ELSE Let(registry[First(hits)], LAMBDA variant :
                        Ok([value |-> HeaderMapGet(header_map, variant.used_header.val).val,
                            variant |-> variant])))

\* a remaining lookup that reports the absence with the reset lookup's error
get_remaining_header_reset_error(header_map) ==
    IF poisoned THEN Err("Lock")
    ELSE Let({i \in DOMAIN registry :
                HeaderMapGet(header_map, registry[i].remaining_header).some},
             LAMBDA hits :
                IF hits = {} THEN Err("MissingReset")
                ELSE Let(registry[First(hits)], LAMBDA variant :
                        Ok([value |-> HeaderMapGet(header_map, variant.remaining_header).val,
                            name |-> variant.remaining_header])))

\* RateLimit::get_remaining_header: the value alone (`name` is kept for the trace)
get_remaining_header(header_map) ==
    IF poisoned THEN Err("Lock")
    ELSE Let({i \in DOMAIN registry :
                HeaderMapGet(header_map, registry[i].remaining_header).some},
             LAMBDA hits :
                IF hits = {} THEN Err("MissingRemaining")
                ELSE Let(registry[First(hits)], LAMBDA variant :
                        Ok([value |-> HeaderMapGet(header_map, variant.remaining_header).val,
                            name |-> variant.remaining_header])))

\* RateLimit::get_reset_header: the value and the variant's reset_kind (`name` is
\* kept for the trace)
get_reset_header(header_map) ==
    IF poisoned THEN Err("Lock")
    ELSE Let({i \in DOMAIN registry :
                HeaderMapGet(header_map, registry[i].reset_header).some},
             LAMBDA hits :
                IF hits = {} THEN Err("MissingReset")
                ELSE Let(registry[First(hits)], LAMBDA variant :
                        Ok([value |-> HeaderMapGet(header_map, variant.reset_header).val,
                            kind |-> variant.reset_kind,
                            name |-> variant.reset_header])))

\* `attempt to add with overflow`: the call does not return
Abort == [ok |-> FALSE, err |-> "abort"]

\* used.count + remaining.count on usize: with overflow checks (the dev profile) an
\* overflowing sum aborts, without them (the release profile) it wraps
UsizeAdd(a, b) ==
    Let(LimbAdd[a, b], LAMBDA sum :
        IF sum.carry # 0 /\ overflow_checks THEN Abort ELSE Ok(sum.val))

\* the lookups that have not run match nothing
NoTrace == [remaining |-> None, limit |-> None, used |-> None,
            reset |-> None, reset_kind |-> None]

\* the two lookups in the other order: the used header first, the limit header
\* only when no used header is present
LimitAndVariant_used_first(header_map, remaining) ==
    Let(get_used_header(header_map), LAMBDA use :
        IF use.ok
        THEN [res |-> Try(Used_new(use.val.value), LAMBDA used :
                          Try(UsizeAdd(used.count, remaining.count), LAMBDA limit :
                              Ok([limit |-> [count |-> limit],
                                  variant |-> use.val.variant]))),
              read |-> [limit |-> None, used |-> use.val.variant.used_header]]
        ELSE Let(get_rate_limit_header(header_map), LAMBDA lim :
            IF lim.ok
            THEN [res |-> Try(Limit_new(lim.val.value), LAMBDA limit :
                              Ok([limit |-> limit, variant |-> lim.val.variant])),
                  read |-> [limit |-> lim.val.variant.limit_header, used |-> None]]
            ELSE [res |-> Err("MissingUsed"),
                  read |-> [limit |-> None, used |-> None]]))

\* lines 51-61 of RateLimit::new: the limit and the variant, from the limit header
\* or else from the used header (`read` is kept for the trace: the header read)
LimitAndVariant(header_map, remaining) ==
    Let(get_rate_limit_header(header_map), LAMBDA lim :
        IF lim.ok
        THEN [res |-> Try(Limit_new(lim.val.value), LAMBDA limit :
                          Ok([limit |-> limit, variant |-> lim.val.variant])),
              read |-> [limit |-> lim.val.variant.limit_header, used |-> None]]
        ELSE Let(get_used_header(header_map), LAMBDA use :
            IF use.ok
            THEN [res |-> Try(Used_new(use.val.value), LAMBDA used :
                              Try(UsizeAdd(used.count, remaining.count), LAMBDA limit :
                                  Ok([limit |-> [count |-> limit],
                                      variant |-> use.val.variant]))),
                  read |-> [limit |-> None, used |-> use.val.variant.used_header]]
            ELSE [res |-> Err("MissingUsed"),
                  read |-> [limit |-> None, used |-> None]]))

\* a record whose window is one hour whatever the variant
RateLimit_window_one_hour(limit, remaining, reset, variant) ==
    [limit |-> limit.count,
     remaining |-> remaining.count,
     reset |-> reset,
     window |-> Some(3600),
     vendor |-> variant.vendor]

\* the RateLimit that new assembles from the parsed headers and the variant
RateLimit(limit, remaining, reset, variant) ==
    [limit |-> limit.count,
     remaining |-> remaining.count,
     reset |-> reset,
     window |-> variant.duration,
     vendor |-> variant.vendor]

\* rfc6585::RateLimit::new: what it returns, and which headers its lookups matched
\* up to where it returned
rfc6585_run(header_map) ==
    Let(get_remaining_header(header_map), LAMBDA value :
    IF ~value.ok THEN [result |-> value, trace |-> NoTrace]
    ELSE Let([NoTrace EXCEPT !.remaining = Some(value.val.name)], LAMBDA t1 :
    Let(Remaining_new(value.val.value), LAMBDA remaining :
    IF ~remaining.ok THEN [result |-> remaining, trace |-> t1]
    ELSE Let(LimitAndVariant(header_map, remaining.val), LAMBDA lv :
    Let([t1 EXCEPT !.limit = lv.read.limit, !.used = lv.read.used], LAMBDA t2 :
    IF ~lv.res.ok THEN [result |-> lv.res, trace |-> t2]
    ELSE Let(get_reset_header(header_map), LAMBDA rs :
    IF ~rs.ok THEN [result |-> rs, trace |-> t2]
    ELSE [result |->
            Try(ResetTime_new(rs.val.value, rs.val.kind), LAMBDA reset :
                Ok(RateLimit(lv.res.val.limit, remaining.val, reset,
                             lv.res.val.variant))),
          trace |-> [t2 EXCEPT !.reset = Some(rs.val.name),
                               !.reset_kind = Some(rs.val.kind)]]))))))

\* rfc6585::RateLimit::new
rfc6585_RateLimit_new(header_map) == rfc6585_run(header_map).result

\* <rfc6585::RateLimit as FromStr>::from_str
rfc6585_RateLimit_from_str(block) ==
    Try(CaseSensitiveHeaderMap_from_str(block), LAMBDA map : rfc6585_RateLimit_new(map))

-----------------------------------------------------------------------------
(* retryafter/mod.rs: the Retry-After resolver                             *)

\* a lookup of the canonical name alone
get_retry_after_header_exact(header_map) ==
    HeaderMapGet(header_map, "Retry-After")

\* a lookup of the lower-case name alone
get_retry_after_header_lower_case(header_map) ==
    HeaderMapGet(header_map, "retry-after")

\* RateLimit::get_retry_after_header
get_retry_after_header(header_map) ==
    IF HeaderMapGet(header_map, "Retry-After").some
    THEN HeaderMapGet(header_map, "Retry-After")
    ELSE HeaderMapGet(header_map, "retry-after")

\* a resolver without the fallback to the Seconds decoding
retryafter_RateLimit_new_date_only(header_map) ==
    Let(get_retry_after_header(header_map), LAMBDA retry_after :
        IF ~retry_after.some THEN Err("MissingRetryAfter")
        ELSE Try(ResetTime_new(retry_after.val, "ImfFixdate"),
                 LAMBDA reset : Ok([reset |-> reset])))

\* a resolver that takes a value it cannot decode as zero seconds
retryafter_RateLimit_new_or_default(header_map) ==
    Let(get_retry_after_header(header_map), LAMBDA retry_after :
        IF ~retry_after.some THEN Err("MissingRetryAfter")
        ELSE Let(IF ParseRfc2822(retry_after.val).ok
                 THEN ResetTime_new(retry_after.val, "ImfFixdate")
                 ELSE ResetTime_new(retry_after.val, "Seconds"),
                 LAMBDA reset : Ok([reset |-> IF reset.ok THEN reset.val
                                              ELSE Seconds(UsizeZero)])))

\* retryafter::RateLimit::new
retryafter_RateLimit_new(header_map) ==
    Let(get_retry_after_header(header_map), LAMBDA retry_after :
        IF ~retry_after.some THEN Err("MissingRetryAfter")
        ELSE Try(IF ParseRfc2822(retry_after.val).ok
                 THEN ResetTime_new(retry_after.val, "ImfFixdate")
                 ELSE ResetTime_new(retry_after.val, "Seconds"),
                 LAMBDA reset : Ok([reset |-> reset])))

\* <retryafter::RateLimit as FromStr>::from_str
retryafter_RateLimit_from_str(block) ==
    Try(CaseSensitiveHeaderMap_from_str(block), LAMBDA map : retryafter_RateLimit_new(map))

-----------------------------------------------------------------------------
(* The combinator RateLimit::new of the crate root: the enum RateLimit with *)
(* the variants Rfc6585 and RetryAfter (tests/parse.rs)                     *)

Rfc6585(rate) == [variant |-> "Rfc6585", rate |-> rate]
RetryAfter(rate) == [variant |-> "RetryAfter", rate |-> rate]

\* the larger seconds-remaining of two successes (on_tie when they are equal),
\* the one success, or the structured resolver's error
RateLimit_new(header_map, at, on_tie) ==
    Let(rfc6585_RateLimit_new(header_map), LAMBDA rfc6585 :
    Let(retryafter_RateLimit_new(header_map), LAMBDA retryafter :
        IF rfc6585 = Abort THEN Abort
        ELSE IF rfc6585.ok /\ retryafter.ok
        THEN Let(LimbCmp[ResetTime_seconds(rfc6585.val.reset, at),
                         ResetTime_seconds(retryafter.val.reset, at)], LAMBDA c :
                 IF c > 0 \/ (c = 0 /\ on_tie = "Rfc6585")
                 THEN Ok(Rfc6585(rfc6585.val))
                 ELSE Ok(RetryAfter(retryafter.val)))
        ELSE IF rfc6585.ok THEN Ok(Rfc6585(rfc6585.val))
        ELSE IF retryafter.ok THEN Ok(RetryAfter(retryafter.val))
        ELSE rfc6585))

-----------------------------------------------------------------------------
(* The header stores the resolvers are applied to                          *)

MaxHeaders == 3

Str(a, b) == <<a, b>>
Foo == <<"f", "o", "o">>
UsizeMaxStr == <<"1", "8", "4", "4", "6", "7", "4", "4", "0", "7", "3", "7", "0", "9", "5", "5", "1", "6", "1", "5">>
TimestampStr == <<"1", "6", "0", "9", "8", "4", "4", "4", "0", "0">>

\* every header name of the registry
LimitNames == {RATE_LIMIT_HEADERS[i].limit_header.val :
                 i \in {j \in DOMAIN RATE_LIMIT_HEADERS : RATE_LIMIT_HEADERS[j].limit_header.some}}
UsedNames == {RATE_LIMIT_HEADERS[i].used_header.val :
                 i \in {j \in DOMAIN RATE_LIMIT_HEADERS : RATE_LIMIT_HEADERS[j].used_header.some}}
RemainingNames == {RATE_LIMIT_HEADERS[i].remaining_header : i \in DOMAIN RATE_LIMIT_HEADERS}
ResetNames == {RATE_LIMIT_HEADERS[i].reset_header : i \in DOMAIN RATE_LIMIT_HEADERS}

\* a remaining header in a letter case no registry entry has
OtherCaseNames == {"X-RATELIMIT-REMAINING"}

HeaderNames == LimitNames \cup UsedNames \cup RemainingNames \cup ResetNames
                 \cup OtherCaseNames

\* a value its encoding accepts
ValidReset(kind) ==
    CASE kind = "Seconds" -> Str("3", "0")
      [] kind = "Timestamp" -> TimestampStr
      [] kind = "ImfFixdate" -> HttpDateSample
      [] kind = "Iso8601" -> IsoDateSample

\* the values a header occurs with: one its role accepts, one no role accepts
SampleValues(name) ==
    IF name \in ResetNames
    THEN {ValidReset(RATE_LIMIT_HEADERS[i].reset_kind) :
            i \in {j \in DOMAIN RATE_LIMIT_HEADERS : RATE_LIMIT_HEADERS[j].reset_header = name}}
         \cup {Foo}
    ELSE IF name \in LimitNames THEN {Str("6", "0"), Foo}
    ELSE IF name \in UsedNames THEN {Str("6", "7"), Foo}
    ELSE {Str("2", "2"), Foo}

\* the stores of the second specification: the Reddit headers, a limit header, a
\* timestamp reset header and the Retry-After header, with the extremes of a count
CombinedNames == {"X-Ratelimit-Used", "X-Ratelimit-Remaining", "X-Ratelimit-Reset",
                  "RateLimit-Limit", "x-ratelimit-reset", "Retry-After", "retry-after"}

CombinedValues(name) ==
    CASE name = "X-Ratelimit-Used" -> {<<"1", "0", "0">>, UsizeMaxStr, Foo}
      [] name = "X-Ratelimit-Remaining" -> {Str("2", "2"), <<"1">>}
      [] name = "X-Ratelimit-Reset" -> {Str("3", "0"), Str("1", "5"), Foo}
      [] name = "RateLimit-Limit" -> {Str("6", "0"), Foo}
      [] name = "x-ratelimit-reset" -> {TimestampStr}
      [] name = "Retry-After" -> {Str("2", "0"), HttpDateSample, Foo}
      [] name = "retry-after" -> {<<" ", "1", "9", " ">>}

\* the raw blocks and the http::HeaderMaps of the third specification: the Github
\* headers of tests::parse_header_map_newlines and of tests/parse.rs, the
\* Retry-After lines of the retryafter tests, a line without separator
MaxLines == 3

GithubLimitStr == <<"5", "0", "0", "0">>
GithubRemainingStr == <<"4", "9", "8", "7">>
GithubResetStr == <<"1", "3", "5", "0", "0", "8", "5", "3", "9", "4">>

HeaderLine(name, value) == <<name, HEADER_SEPARATOR, " ">> \o value

RawLines == {HeaderLine("x-ratelimit-limit", GithubLimitStr),
             HeaderLine("x-ratelimit-remaining", GithubRemainingStr),
             HeaderLine("x-ratelimit-reset", GithubResetStr \o <<" ">>),
             HeaderLine("retry-after", Str("1", "9")),
             HeaderLine("RETRY-AFTER", Str("1", "9")),
             HeaderLine("Retry-After", Str("2", "0")),
             HeaderLine("Retry-After", HttpDateSample),
             HeaderLine("Retry-After", Foo),
             HeaderLine("Retry-After", <<"2", "\f", "0">>),
             Foo}

HttpNames == DOMAIN ToLowerCase

HttpValues(name) ==
    CASE ToLowerCase[name] = "x-ratelimit-limit" -> {GithubLimitStr}
      [] ToLowerCase[name] = "x-ratelimit-remaining" -> {GithubRemainingStr}
      [] ToLowerCase[name] = "x-ratelimit-reset" -> {GithubResetStr}
      [] ToLowerCase[name] = "retry-after" -> {Str("2", "0")}

\* the ResetTime values a caller compares a result's reset with
OtherResets == {Seconds(FromNat(20)), DateTime(I64(FALSE, FromNat(1609844400)))}

\* the instants a call is made at: before and after the timestamp 1609844400
Clock == {1609844300, 1609844390, 1609844500}

-----------------------------------------------------------------------------
(* Actions                                                                 *)

NoResult == [ok |-> FALSE, err |-> "none"]

\* no method of the result has been called
NoObserved == [op |-> "none"]

Init ==
    /\ registry = RATE_LIMIT_HEADERS
    /\ poisoned = FALSE
    /\ headers = EmptyHeaderMap
    /\ pc = "build"
    /\ call = "none"
    /\ result = NoResult
    /\ trace = NoTrace
    /\ now = 1609844300
    /\ overflow_checks \in BOOLEAN
    /\ raw = << >>
    /\ http_headers = << >>
    /\ inserted = {}
    /\ observed = NoObserved
    /\ threads = << >>
    /\ mutex = [cell |-> TRUE, holder |-> 0]

InitCombined ==
    /\ registry = RATE_LIMIT_HEADERS
    /\ poisoned = FALSE
    /\ headers = EmptyHeaderMap
    /\ pc = "build"
    /\ call = "none"
    /\ result = NoResult
    /\ trace = NoTrace
    /\ now \in Clock
    /\ overflow_checks \in BOOLEAN
    /\ raw = << >>
    /\ http_headers = << >>
    /\ inserted = {}
    /\ observed = NoObserved
    /\ threads = << >>
    /\ mutex = [cell |-> TRUE, holder |-> 0]

\* CaseSensitiveHeaderMap::insert on the store being built
Insert(name, value) ==
    /\ pc = "build"
    /\ Cardinality((DOMAIN headers) \cup {name}) <= MaxHeaders
    /\ headers' = HeaderMapInsert(headers, name, value)
    /\ UNCHANGED <<registry, poisoned, pc, call, result, trace, now, overflow_checks, raw, http_headers, inserted, observed, threads, mutex>>

InsertHeader == \E name \in HeaderNames : \E value \in SampleValues(name) : Insert(name, value)

\* the same insert, on the stores of the second specification
InsertCombined ==
    \E name \in CombinedNames : \E value \in CombinedValues(name) :
        /\ pc = "build"
        /\ headers' = HeaderMapInsert(headers, name, value)
        /\ UNCHANGED <<registry, poisoned, pc, call, result, trace, now, overflow_checks, raw, http_headers, inserted, observed, threads, mutex>>

\* rfc6585::RateLimit::new(headers)
Rfc6585New ==
    /\ pc = "build"
    /\ result' = rfc6585_RateLimit_new(headers)
    /\ trace' = rfc6585_run(headers).trace
    /\ pc' = "done"
    /\ call' = "rfc6585"
    /\ registry' = variants_iter(registry)
    /\ UNCHANGED <<poisoned, headers, now, overflow_checks, raw, http_headers, inserted, observed, threads, mutex>>

\* retryafter::RateLimit::new(headers)
RetryAfterNew ==
    /\ pc = "build"
    /\ result' = retryafter_RateLimit_new(headers)
    /\ pc' = "done"
    /\ call' = "retryafter"
    /\ UNCHANGED <<registry, poisoned, headers, trace, now, overflow_checks, raw, http_headers, inserted, observed, threads, mutex>>

\* RateLimit::new(headers)
CombinedNew ==
    /\ pc = "build"
    /\ \E on_tie \in {"Rfc6585", "RetryAfter"} :
         result' = RateLimit_new(headers, now, on_tie)
    /\ pc' = "done"
    /\ call' = "combined"
    /\ registry' = variants_iter(registry)
    /\ UNCHANGED <<poisoned, headers, trace, now, overflow_checks, raw, http_headers, inserted, observed, threads, mutex>>

\* the result is dropped and another store is begun: CaseSensitiveHeaderMap::new
NewHeaderMap ==
    /\ pc = "done"
    /\ headers' = EmptyHeaderMap
    /\ pc' = "build"
    /\ call' = "none"
    /\ result' = NoResult
    /\ trace' = NoTrace
    /\ raw' = << >>
    /\ http_headers' = << >>
    /\ inserted' = {}
    /\ observed' = NoObserved
    /\ UNCHANGED <<registry, poisoned, now, overflow_checks, threads, mutex>>

Next == InsertHeader \/ Rfc6585New \/ NewHeaderMap

Spec == Init /\ [][Next]_vars

\* the reset of the result a resolver returned
Reset == result.val.reset

\* the caller calls reset.seconds() on the result of a resolver
ResetTimeSeconds ==
    /\ pc = "done"
    /\ call \in {"rfc6585", "retryafter"}
    /\ result.ok
    /\ observed = NoObserved
    /\ observed' = [op |-> "seconds", val |-> ResetTime_seconds(Reset, now)]
    /\ UNCHANGED <<registry, poisoned, headers, pc, call, result, trace, now, overflow_checks, raw, http_headers, inserted, threads, mutex>>

\* the caller compares the reset of the result with another ResetTime
ResetTimeCompare ==
    \E other \in OtherResets :
        /\ pc = "done"
        /\ call \in {"rfc6585", "retryafter"}
        /\ result.ok
        /\ observed = NoObserved
        /\ observed' = [op |-> "partial_cmp", other |-> other,
                        val |-> ResetTime_partial_cmp(Reset, other)]
        /\ UNCHANGED <<registry, poisoned, headers, pc, call, result, trace, now, overflow_checks, raw, http_headers, inserted, threads, mutex>>

NextCombined ==
    InsertCombined \/ Rfc6585New \/ RetryAfterNew \/ CombinedNew \/ ResetTimeSeconds \/ ResetTimeCompare \/ NewHeaderMap

SpecCombined == InitCombined /\ [][NextCombined]_vars

InitIngest ==
    /\ registry = RATE_LIMIT_HEADERS
    /\ poisoned = FALSE
    /\ headers = EmptyHeaderMap
    /\ pc = "build"
    /\ call = "none"
    /\ result = NoResult
    /\ trace = NoTrace
    /\ now = 1609844300
    /\ overflow_checks \in BOOLEAN
    /\ raw = << >>
    /\ http_headers = << >>
    /\ inserted = {}
    /\ observed = NoObserved
    /\ threads = << >>
    /\ mutex = [cell |-> TRUE, holder |-> 0]

\* one more line of the raw block
AppendLine ==
    \E line \in RawLines :
        /\ pc = "build"
        /\ http_headers = << >>
        /\ Len(Lines(raw)) < MaxLines
        /\ raw' = raw \o line \o <<"\n">>
        /\ UNCHANGED <<registry, poisoned, headers, pc, call, result, trace, now, overflow_checks, http_headers, inserted, observed, threads, mutex>>

\* http::HeaderMap::insert on the map being built
HttpInsert ==
    \E name \in HttpNames : \E value \in HttpValues(name) :
        /\ pc = "build"
        /\ raw = << >>
        /\ Cardinality((DOMAIN http_headers) \cup {ToLowerCase[name]}) <= MaxHeaders
        /\ http_headers' = HttpHeaderMapInsert(http_headers, name, value)
        /\ inserted' = inserted \cup {name}
        /\ UNCHANGED <<registry, poisoned, headers, pc, call, result, trace, now, overflow_checks, raw, observed, threads, mutex>>

\* the store a raw block is collected into (empty when the collection aborted)
StoreOf(block) ==
    Let(CaseSensitiveHeaderMap_from_str(block), LAMBDA map :
        IF map.ok THEN map.val ELSE EmptyHeaderMap)

\* rfc6585::RateLimit::from_str(raw)
Rfc6585FromStr ==
    /\ pc = "build"
    /\ http_headers = << >>
    /\ headers' = StoreOf(raw)
    /\ result' = rfc6585_RateLimit_from_str(raw)
    /\ trace' = (IF CaseSensitiveHeaderMap_from_str(raw).ok
                 THEN rfc6585_run(StoreOf(raw)).trace ELSE NoTrace)
    /\ pc' = "done"
    /\ call' = "rfc6585_from_str"
    /\ registry' = (IF CaseSensitiveHeaderMap_from_str(raw).ok
                    THEN variants_iter(registry) ELSE registry)
    /\ UNCHANGED <<poisoned, now, overflow_checks, raw, http_headers, inserted, observed, threads, mutex>>

\* retryafter::RateLimit::from_str(raw)
RetryAfterFromStr ==
    /\ pc = "build"
    /\ http_headers = << >>
    /\ headers' = StoreOf(raw)
    /\ result' = retryafter_RateLimit_from_str(raw)
    /\ pc' = "done"
    /\ call' = "retryafter_from_str"
    /\ UNCHANGED <<registry, poisoned, trace, now, overflow_checks, raw, http_headers, inserted, observed, threads, mutex>>

\* HeaderMap::from_raw(raw)
HeaderMapFromRaw ==
    /\ pc = "build"
    /\ http_headers = << >>
    /\ result' = HeaderMap_from_raw(raw)
    /\ pc' = "done"
    /\ call' = "from_raw"
    /\ UNCHANGED <<registry, poisoned, headers, trace, now, overflow_checks, raw, http_headers, inserted, observed, threads, mutex>>

\* rfc6585::RateLimit::new(http_headers), through Into<CaseSensitiveHeaderMap>
Rfc6585FromHeaderMap ==
    /\ pc = "build"
    /\ raw = << >>
    /\ headers' = CaseSensitiveHeaderMap_from_HeaderMap(http_headers)
    /\ result' = rfc6585_RateLimit_new(CaseSensitiveHeaderMap_from_HeaderMap(http_headers))
    /\ trace' = rfc6585_run(CaseSensitiveHeaderMap_from_HeaderMap(http_headers)).trace
    /\ pc' = "done"
    /\ call' = "rfc6585_from_http"
    /\ registry' = variants_iter(registry)
    /\ UNCHANGED <<poisoned, now, overflow_checks, raw, http_headers, inserted, observed, threads, mutex>>

NextIngest ==
    AppendLine \/ HttpInsert \/ Rfc6585FromStr \/ RetryAfterFromStr \/ HeaderMapFromRaw \/ Rfc6585FromHeaderMap \/ NewHeaderMap

SpecIngest == InitIngest /\ [][NextIngest]_vars

\* the count values of the fourth specification: those of tests::parse_limit_value
\* and parse_invalid_limit_value, a signed, an empty, the largest and a too large one
MaxPad == 2

UsizeOverflowStr == <<"1", "8", "4", "4", "6", "7", "4", "4", "0", "7", "3", "7", "0", "9", "5", "5", "1", "6", "1", "6">>

CountValues == {Str("2", "3"), Foo, <<"0", " ", "f", "o", "o">>, <<"b", "a", "r", " ", "0">>,
                <<"-", "5">>, <<"+", "2", "3">>, <<"-">>, << >>, <<"2", "+", "3">>,
                UsizeMaxStr, UsizeOverflowStr}

\* the fourth specification: a header value (held in `raw`) is given to the
\* constructors of the count types
InitParse ==
    /\ registry = RATE_LIMIT_HEADERS
    /\ poisoned = FALSE
    /\ headers = EmptyHeaderMap
    /\ pc = "build"
    /\ call = "none"
    /\ result = NoResult
    /\ trace = NoTrace
    /\ now \in Clock
    /\ overflow_checks \in BOOLEAN
    /\ raw \in CountValues
    /\ http_headers = << >>
    /\ inserted = {}
    /\ observed = NoObserved
    /\ threads = << >>
    /\ mutex = [cell |-> TRUE, holder |-> 0]

\* the value gets whitespace in front
PadStart ==
    \E c \in Whitespace :
        /\ pc = "build"
        /\ Len(raw) - Len(TrimStart(raw)) < MaxPad
        /\ raw' = <<c>> \o raw
        /\ UNCHANGED <<registry, poisoned, headers, pc, call, result, trace, now, overflow_checks, http_headers, inserted, observed, threads, mutex>>

\* the value gets whitespace at its end
PadEnd ==
    \E c \in Whitespace :
        /\ pc = "build"
        /\ Len(raw) - Len(TrimEnd(raw)) < MaxPad
        /\ raw' = Append(raw, c)
        /\ UNCHANGED <<registry, poisoned, headers, pc, call, result, trace, now, overflow_checks, http_headers, inserted, observed, threads, mutex>>

\* Limit::new(raw)
LimitNew ==
    /\ pc = "build"
    /\ result' = Limit_new(raw)
    /\ pc' = "done"
    /\ call' = "Limit_new"
    /\ UNCHANGED <<registry, poisoned, headers, trace, now, overflow_checks, raw, http_headers, inserted, observed, threads, mutex>>

\* Used::new(raw)
UsedNew ==
    /\ pc = "build"
    /\ result' = Used_new(raw)
    /\ pc' = "done"
    /\ call' = "Used_new"
    /\ UNCHANGED <<registry, poisoned, headers, trace, now, overflow_checks, raw, http_headers, inserted, observed, threads, mutex>>

\* Remaining::new(raw)
RemainingNew ==
    /\ pc = "build"
    /\ result' = Remaining_new(raw)
    /\ pc' = "done"
    /\ call' = "Remaining_new"
    /\ UNCHANGED <<registry, poisoned, headers, trace, now, overflow_checks, raw, http_headers, inserted, observed, threads, mutex>>

\* ResetTime::new(raw, ResetTimeKind::Seconds)
ResetTimeNewSeconds ==
    /\ pc = "build"
    /\ result' = ResetTime_new(raw, "Seconds")
    /\ pc' = "done"
    /\ call' = "ResetTime_new"
    /\ UNCHANGED <<registry, poisoned, headers, trace, now, overflow_checks, raw, http_headers, inserted, observed, threads, mutex>>

\* the result is dropped, the value is kept
DropResult ==
    /\ pc = "done"
    /\ pc' = "build"
    /\ call' = "none"
    /\ result' = NoResult
    /\ UNCHANGED <<registry, poisoned, headers, trace, now, overflow_checks, raw, http_headers, inserted, observed, threads, mutex>>

NextParse ==
    PadStart \/ PadEnd \/ LimitNew \/ UsedNew \/ RemainingNew \/ ResetTimeNewSeconds \/ DropResult

SpecParse == InitParse /\ [][NextParse]_vars

-----------------------------------------------------------------------------
(* Calls of rfc6585::RateLimit::new on several threads, lookup by lookup    *)

NumThreads == 2

Threads == 1 .. NumThreads

\* the stores the threads resolve: the Reddit headers of tests::parse_reddit_headers,
\* the same with the largest used count, headers of the Standard entry, no header
ThreadStores ==
    { ("X-Ratelimit-Used" :> <<"1", "0", "0">>) @@ ("X-Ratelimit-Remaining" :> Str("2", "2"))
         @@ ("X-Ratelimit-Reset" :> Str("3", "0")),
      ("X-Ratelimit-Used" :> UsizeMaxStr) @@ ("X-Ratelimit-Remaining" :> Str("2", "2"))
         @@ ("X-Ratelimit-Reset" :> Str("3", "0")),
      ("RateLimit-Limit" :> Str("6", "0")) @@ ("Ratelimit-Remaining" :> Str("2", "2"))
         @@ ("Ratelimit-Reset" :> Str("3", "0")),
      EmptyHeaderMap }

\* a call that has got its store and is about to look the remaining header up;
\* `locks` is the history of its lookups: which one, and whether lock() gave the guard
NewCall(header_map) ==
    [pc |-> "remaining", headers |-> header_map, remaining |-> None, limit |-> None,
     variant |-> None, result |-> NoResult, locks |-> << >>]

\* RATE_LIMIT_HEADERS.lock() by thread t: Mutex::lock blocks until the lock is free,
\* and the first Deref of the Lazy has run its closure
Mutex_lock(m, t) == [cell |-> TRUE, holder |-> t]

\* a guard that is forgotten instead of dropped: the lock stays taken
MutexGuard_leak(m, t) == m

\* the MutexGuard goes out of scope at the return of the lookup (also the guard
\* inside a PoisonError, which map_err drops)
MutexGuard_drop(m, t) == [m EXCEPT !.holder = 0]

\* the call returns (or aborts) with `res`
Return(c, res) == [c EXCEPT !.pc = "done", !.result = res]

\* lines 48-49 of RateLimit::new, after get_remaining_header gave `value`
AfterRemaining(c, value) ==
    IF ~value.ok THEN Return(c, value)
    ELSE Let(Remaining_new(value.val.value), LAMBDA remaining :
             IF ~remaining.ok THEN Return(c, remaining)
             ELSE [c EXCEPT !.pc = "limit", !.remaining = Some(remaining.val)])

\* lines 51-52, after get_rate_limit_header gave `lim`: `if let Ok(..)` goes on to
\* the used lookup for every Err
AfterLimit(c, lim) ==
    IF lim.ok
    THEN Let(Limit_new(lim.val.value), LAMBDA limit :
             IF ~limit.ok THEN Return(c, limit)
             ELSE [c EXCEPT !.pc = "reset", !.limit = Some(limit.val),
                            !.variant = Some(lim.val.variant)])
    ELSE [c EXCEPT !.pc = "used"]

\* lines 53-61, after get_used_header gave `use`: `else if let Ok(..)`, and
\* MissingUsed for every Err
AfterUsed(c, use) ==
    IF use.ok
    THEN Let(Try(Used_new(use.val.value), LAMBDA used :
                 UsizeAdd(used.count, c.remaining.val.count)), LAMBDA limit :
             IF ~limit.ok THEN Return(c, limit)
             ELSE [c EXCEPT !.pc = "reset", !.limit = Some([count |-> limit.val]),
                            !.variant = Some(use.val.variant)])
    ELSE Return(c, Err("MissingUsed"))

\* lines 63-72, after get_reset_header gave `rs`
AfterReset(c, rs) ==
    IF ~rs.ok THEN Return(c, rs)
    ELSE Return(c, Try(ResetTime_new(rs.val.value, rs.val.kind), LAMBDA reset :
                       Ok(RateLimit(c.limit.val, c.remaining.val, reset, c.variant.val))))

\* the lookup thread t is at, on its store, and the call after it
AfterLookup(c) ==
    CASE c.pc = "remaining" ->
            Let(get_remaining_header(c.headers), LAMBDA r : AfterRemaining(c, r))
      [] c.pc = "limit" ->
            Let(get_rate_limit_header(c.headers), LAMBDA r : AfterLimit(c, r))
      [] c.pc = "used" ->
            Let(get_used_header(c.headers), LAMBDA r : AfterUsed(c, r))
      [] c.pc = "reset" ->
            Let(get_reset_header(c.headers), LAMBDA r : AfterReset(c, r))

InitThreads ==
    /\ registry = << >>
    /\ poisoned = FALSE
    /\ headers = EmptyHeaderMap
    /\ pc = "build"
    /\ call = "none"
    /\ result = NoResult
    /\ trace = NoTrace
    /\ now \in Clock
    /\ overflow_checks \in BOOLEAN
    /\ raw = << >>
    /\ http_headers = << >>
    /\ inserted = {}
    /\ observed = NoObserved
    /\ threads \in [Threads -> {NewCall(h) : h \in ThreadStores}]
    /\ mutex = [cell |-> FALSE, holder |-> 0]

\* thread t takes the registry lock for its next lookup; the first lock of the
\* process builds the registry (Lazy::new's closure, run once)
Lock(t) ==
    /\ threads[t].pc # "done"
    /\ mutex.holder = 0
    /\ mutex' = Mutex_lock(mutex, t)
    /\ registry' = (IF mutex.cell THEN registry ELSE RATE_LIMIT_HEADERS)
    /\ threads' = [threads EXCEPT ![t].locks =
                      Append(@, [step |-> threads[t].pc, ok |-> ~poisoned])]
    /\ UNCHANGED <<poisoned, headers, pc, call, result, trace, now, overflow_checks, raw, http_headers, inserted, observed>>

\* thread t, holding the lock, walks the registry and returns from the lookup
Lookup(t) ==
    /\ threads[t].pc # "done"
    /\ mutex.holder = t
    /\ threads' = [threads EXCEPT ![t] = AfterLookup(threads[t])]
    /\ mutex' = MutexGuard_drop(mutex, t)
    /\ registry' = variants_iter(registry)
    /\ UNCHANGED <<poisoned, headers, pc, call, result, trace, now, overflow_checks, raw, http_headers, inserted, observed>>

ThreadStep(t) == Lock(t) \/ Lookup(t)

NextThreads == \E t \in Threads : ThreadStep(t)

\* a thread that is scheduled again and again takes its next step; the calls are
\* finite, so a waiting thread finds the lock free in the end
SpecThreads ==
    InitThreads /\ [][NextThreads]_vars /\ \A t \in Threads : WF_vars(ThreadStep(t))

\* a thread outside the calls panics while it holds the registry's guard: the
\* mutex is poisoned from then on
Poison ==
    /\ mutex.cell
    /\ mutex.holder = 0
    /\ ~poisoned
    /\ \E t \in Threads : threads[t].pc # "done"
    /\ poisoned' = TRUE
    /\ UNCHANGED <<registry, headers, pc, call, result, trace, now, overflow_checks, raw, http_headers, inserted, observed, threads, mutex>>

NextPoison == NextThreads \/ Poison

SpecPoison ==
    InitThreads /\ [][NextPoison]_vars /\ \A t \in Threads : WF_vars(ThreadStep(t))

-----------------------------------------------------------------------------
(* Properties of the structured resolver                                   *)

\* a call of rfc6585::RateLimit::new has returned (or aborted)
Structured == pc = "done" /\ call = "rfc6585"

\* a call of the combinator has returned (or aborted)
Combined == pc = "done" /\ call = "combined"

Present(names) == names \cap DOMAIN headers

\* the name of a variant's limit header or, if it has none, of its used header
LimitOrUsed(v) == IF v.limit_header.some THEN v.limit_header.val ELSE v.used_header.val

\* the store holds exactly the variant's own three headers, each with a valid value
OwnHeaders(v) ==
    /\ DOMAIN headers = {LimitOrUsed(v), v.remaining_header, v.reset_header}
    /\ headers[LimitOrUsed(v)] = (IF v.limit_header.some THEN Str("6", "0") ELSE Str("6", "7"))
    /\ headers[v.remaining_header] = Str("2", "2")
    /\ headers[v.reset_header] = ValidReset(v.reset_kind)

\* C1: for each of the 7 registry variants, a store of exactly that variant's own
\* headers (limit or else used, remaining, reset), each valid, makes the structured
\* resolver succeed with that variant's vendor.
C1_OwnHeadersGiveOwnVendor ==
    \A i \in DOMAIN RATE_LIMIT_HEADERS :
        (Structured /\ OwnHeaders(RATE_LIMIT_HEADERS[i]))
            => (result.ok /\ result.val.vendor = RATE_LIMIT_HEADERS[i].vendor)

\* C2: in every successful structured result the header names read for limit (or
\* used), remaining and reset, the reset encoding, the window and the vendor all
\* belong to one single registry variant.
C2_AllFromOneVariant ==
    (Structured /\ result.ok) =>
        \E i \in DOMAIN RATE_LIMIT_HEADERS :
            LET v == RATE_LIMIT_HEADERS[i] IN
            /\ trace.limit.some => trace.limit = v.limit_header
            /\ trace.used.some => trace.used = v.used_header
            /\ trace.remaining = Some(v.remaining_header)
            /\ trace.reset = Some(v.reset_header)
            /\ trace.reset_kind = Some(v.reset_kind)
            /\ result.val.window = v.duration
            /\ result.val.vendor = v.vendor

\* the first variant, in registry order, whose remaining_header is in the store
FirstRemainingMatch ==
    RATE_LIMIT_HEADERS[First({i \in DOMAIN RATE_LIMIT_HEADERS :
                                RATE_LIMIT_HEADERS[i].remaining_header \in DOMAIN headers})]

\* C3: the vendor and the window a successful structured result reports are those
\* of the first variant, in registry order, whose remaining_header is present, also
\* when the first limit-header match is another variant.
C3_RemainingMatchIsReported ==
    (Structured /\ result.ok) =>
        /\ result.val.vendor = FirstRemainingMatch.vendor
        /\ result.val.window = FirstRemainingMatch.duration

\* C4: header names are matched by case-sensitive string equality: every name a
\* lookup matched is a key of the store letter for letter; a store with
\* x-ratelimit-limit selects Github, one with RateLimit-Limit selects Standard,
\* one with X-RateLimit-Limit selects Vimeo; and a store whose only remaining
\* header is spelled in a case no registry entry has matches nothing
\* (MissingRemaining).
C4_CaseSensitiveMatch ==
    Structured =>
        /\ \A f \in {"remaining", "limit", "used", "reset"} :
              trace[f].some => trace[f].val \in DOMAIN headers
        /\ (result.ok /\ "RateLimit-Limit" \in DOMAIN headers)
              => result.val.vendor = "Standard"
        /\ (result.ok /\ Present(LimitNames) = {"x-ratelimit-limit"})
              => result.val.vendor = "Github"
        /\ (result.ok /\ Present(LimitNames) = {"X-RateLimit-Limit"})
              => result.val.vendor = "Vimeo"
        /\ (Present(OtherCaseNames) # {} /\ Present(RemainingNames) = {})
              => result = Err("MissingRemaining")

\* a store in Github's lower-case spelling has resolved to Github
C4_Witness ==
    /\ Structured
    /\ DOMAIN headers = {"x-ratelimit-limit", "x-ratelimit-remaining", "x-ratelimit-reset"}
    /\ result.ok
    /\ result.val.vendor = "Github"
    /\ trace.limit = Some("x-ratelimit-limit")

\* the used header and the remaining header a derived limit is computed from
DerivedLimitCase ==
    /\ Structured
    /\ Present(LimitNames) = {}
    /\ Present(UsedNames) = {"X-Ratelimit-Used"}
    /\ Present(RemainingNames) = {"X-Ratelimit-Remaining"}
    /\ to_usize(headers["X-Ratelimit-Used"]).ok
    /\ to_usize(headers["X-Ratelimit-Remaining"]).ok

\* C5: with no limit header, a used header of value u and a remaining header of
\* value r, the call never aborts and a result it returns has limit = u + r
\* exactly, also when u + r exceeds the machine word (the sum is not wrapped).
C5_DerivedLimitIsExactSum ==
    DerivedLimitCase =>
        LET sum == LimbAdd[to_usize(headers["X-Ratelimit-Used"]).val,
                           to_usize(headers["X-Ratelimit-Remaining"]).val]
        IN  /\ result # Abort
            /\ result.ok => (sum.carry = 0 /\ result.val.limit = sum.val)

\* C6: with a limit header and a used header both present, the limit is the limit
\* header's value and no sum is computed; the used header is not read, so its
\* value causes no error; an unparsable limit value fails with InvalidValue
\* without a fallback to the used header.
C6_LimitHeaderPrecedesUsed ==
    (/\ Structured
     /\ "RateLimit-Limit" \in DOMAIN headers
     /\ "X-Ratelimit-Used" \in DOMAIN headers
     /\ "X-Ratelimit-Remaining" \in DOMAIN headers) =>
        /\ trace.limit = Some("RateLimit-Limit")
        /\ trace.used = None
        /\ IF headers["RateLimit-Limit"] = Foo
           THEN result = Err("InvalidValue")
           ELSE IF Present(ResetNames) = {}
           THEN result = Err("MissingReset")
           ELSE IF "X-Ratelimit-Reset" \in DOMAIN headers /\ headers["X-Ratelimit-Reset"] = Foo
           THEN result = Err("InvalidValue")
           ELSE result.ok /\ result.val.limit = FromNat(60)

\* a limit was taken from the limit header beside a used header that does not parse
C6_Witness ==
    /\ Structured
    /\ "RateLimit-Limit" \in DOMAIN headers
    /\ "X-Ratelimit-Used" \in DOMAIN headers
    /\ headers["X-Ratelimit-Used"] = Foo
    /\ result.ok
    /\ result.val.limit = FromNat(60)

\* C7: a remaining header with a valid value and neither a limit header nor a used
\* header makes the structured resolver fail with MissingLimit.
C7_NeitherLimitNorUsedIsMissingLimit ==
    (/\ Structured
     /\ Present(RemainingNames) # {}
     /\ \A n \in Present(RemainingNames) : to_usize(headers[n]).ok
     /\ Present(LimitNames \cup UsedNames) = {}) =>
        result = Err("MissingLimit")

\* C8: when no variant's remaining_header is in the store the structured resolver
\* fails with MissingRemaining whatever else the store holds, and no other lookup
\* has run before.
C8_MissingRemainingFirst ==
    (Structured /\ Present(RemainingNames) = {}) =>
        (result = Err("MissingRemaining") /\ trace = NoTrace)

\* a store with a limit header that does not parse and a reset header, but no
\* remaining header, has failed with MissingRemaining
C8_Witness ==
    /\ Structured
    /\ Present(RemainingNames) = {}
    /\ \E n \in Present(LimitNames) : headers[n] = Foo
    /\ Present(ResetNames) # {}
    /\ result = Err("MissingRemaining")

\* the remaining header and the limit header (or else the used header) the call
\* reads are present and each parses as a count
RemainingAndLimitValid ==
    /\ Present(RemainingNames) # {}
    /\ \A n \in Present(RemainingNames) : to_usize(headers[n]).ok
    /\ Present(LimitNames \cup UsedNames) # {}
    /\ \A n \in Present(LimitNames \cup UsedNames) : to_usize(headers[n]).ok

\* C9: with remaining and limit (or used) present and valid, a store without a
\* reset header fails with MissingReset, and a reset value its encoding cannot
\* decode fails with the decoder's own error; no result record is produced.
C9_ResetErrors ==
    (Structured /\ RemainingAndLimitValid) =>
        IF Present(ResetNames) = {}
        THEN result = Err("MissingReset")
        ELSE LET v == RATE_LIMIT_HEADERS[First({i \in DOMAIN RATE_LIMIT_HEADERS :
                         RATE_LIMIT_HEADERS[i].reset_header \in DOMAIN headers})]
                 decoded == ResetTime_new(headers[v.reset_header], v.reset_kind)
             IN  ~decoded.ok => result = decoded

-----------------------------------------------------------------------------
(* Properties of the combinator                                            *)

\* the whole seconds from the instant `now` until the reset, as a signed number
SecondsRemaining(reset) ==
    IF reset.kind = "Seconds" THEN I64(FALSE, reset.n)
    ELSE I64Sub(reset.d, I64(FALSE, FromNat(now)))

RedditStore(reset_value) ==
    /\ DOMAIN headers = {"X-Ratelimit-Used", "X-Ratelimit-Remaining",
                         "X-Ratelimit-Reset", "Retry-After"}
    /\ headers["X-Ratelimit-Used"] = <<"1", "0", "0">>
    /\ headers["X-Ratelimit-Remaining"] = Str("2", "2")
    /\ headers["X-Ratelimit-Reset"] = reset_value
    /\ headers["Retry-After"] = Str("2", "0")

-----------------------------------------------------------------------------
(* Properties of the Retry-After resolver                                  *)

\* a call of retryafter::RateLimit::from_str has collected the store and returned
RetriedFromStr == pc = "done" /\ call = "retryafter_from_str" /\ result # Abort

\* a call of retryafter::RateLimit::new has returned
Retried == pc = "done" /\ call = "retryafter"

\* C13: the Retry-After resolver looks up only the header named exactly
\* Retry-After: it fails with MissingRetryAfter if and only if the store has no
\* entry under that exact name (so also when the only such header is retry-after).
C13_OnlyExactRetryAfter ==
    RetriedFromStr =>
        (result = Err("MissingRetryAfter") <=> "Retry-After" \notin DOMAIN headers)

\* C13, amended: the resolver fails with MissingRetryAfter if and only if the
\* store has an entry neither under Retry-After nor under retry-after; a header
\* in any other capitalization (RETRY-AFTER) is not found.
C13_ExactOrLowerCaseRetryAfter ==
    RetriedFromStr =>
        (result = Err("MissingRetryAfter")
            <=> Present({"Retry-After", "retry-after"}) = {})

\* a block whose only Retry-After header is spelled RETRY-AFTER has failed with
\* MissingRetryAfter
C13_Witness ==
    /\ RetriedFromStr
    /\ DOMAIN headers = {"RETRY-AFTER"}
    /\ result = Err("MissingRetryAfter")

\* C14: the Retry-After resolver accepts the all-lower-case name: a raw block with
\* only the line `retry-after: n` resolves to Seconds(n) (n = 19 in the block of
\* the test), and so does every block whose store has retry-after with a count
\* and no Retry-After.
C14_LowerCaseRetryAfterAccepted ==
    RetriedFromStr =>
        /\ raw = HeaderLine("retry-after", Str("1", "9")) \o <<"\n">>
              => result = Ok([reset |-> Seconds(FromNat(19))])
        /\ (/\ "Retry-After" \notin DOMAIN headers
            /\ "retry-after" \in DOMAIN headers
            /\ headers["retry-after"] = Str("1", "9"))
              => result = Ok([reset |-> Seconds(FromNat(19))])

\* the block `retry-after: 19` has resolved to Seconds(19)
C14_Witness ==
    /\ RetriedFromStr
    /\ raw = HeaderLine("retry-after", Str("1", "9")) \o <<"\n">>
    /\ result = Ok([reset |-> Seconds(FromNat(19))])

\* the value the Retry-After resolver reads
RetryAfterValue ==
    IF "Retry-After" \in DOMAIN headers THEN headers["Retry-After"]
    ELSE headers["retry-after"]

\* C15: a present Retry-After value that is a valid HTTP date yields the absolute
\* instant in UTC, and a value that is a non-negative integer n, with or without
\* surrounding whitespace, yields Seconds(n): the date decoding is tried first,
\* the Seconds decoding when it fails.
C15_DateThenSeconds ==
    (Retried /\ Present({"Retry-After", "retry-after"}) # {}) =>
        /\ RetryAfterValue = HttpDateSample
              => result = Ok([reset |-> DateTime(I64(FALSE, FromNat(784887151)))])
        /\ RetryAfterValue = Str("2", "0")
              => result = Ok([reset |-> Seconds(FromNat(20))])
        /\ RetryAfterValue = <<" ", "1", "9", " ">>
              => result = Ok([reset |-> Seconds(FromNat(19))])

\* a Retry-After count with surrounding whitespace has resolved to Seconds
C15_Witness ==
    /\ Retried
    /\ DOMAIN headers = {"retry-after"}
    /\ headers["retry-after"] = <<" ", "1", "9", " ">>
    /\ result = Ok([reset |-> Seconds(FromNat(19))])

\* C16: a present Retry-After value that is neither a valid date nor a
\* non-negative integer makes the resolver fail with InvalidRetryAfter.
C16_InvalidRetryAfter ==
    (Retried /\ Present({"Retry-After", "retry-after"}) # {} /\ RetryAfterValue = Foo)
        => result = Err("InvalidRetryAfter")

-----------------------------------------------------------------------------
(* Properties of the registry                                              *)

\* a row of the registry table: window in seconds (0 for none), "" for no header
Row(vendor, window, limit, used, remaining, reset, kind) ==
    [vendor |-> vendor,
     duration |-> IF window = 0 THEN None ELSE Some(window),
     limit_header |-> IF limit = "" THEN None ELSE Some(limit),
     used_header |-> IF used = "" THEN None ELSE Some(used),
     remaining_header |-> remaining,
     reset_header |-> reset,
     reset_kind |-> kind]

-----------------------------------------------------------------------------
(* Properties of the ingestion                                             *)

\* a call of rfc6585::RateLimit::new on an http::HeaderMap has returned
ResolvedHeaderMap == pc = "done" /\ call = "rfc6585_from_http"

\* the three headers of the example, in capitals
GithubCapitals == {"X-RATELIMIT-LIMIT", "X-RATELIMIT-REMAINING", "X-RATELIMIT-RESET"}

\* C19: the case-sensitive store built from an http::HeaderMap has every name in
\* lower case, whatever case it was inserted with, and every value unchanged;
\* so the headers inserted as X-RATELIMIT-LIMIT: 5000, X-RATELIMIT-REMAINING: 4987
\* and X-RATELIMIT-RESET: 1350085394 resolve to limit 5000, remaining 4987, reset
\* at Unix time 1350085394, window 1 hour and vendor Github.
C19_HeaderMapNamesLowerCase ==
    ResolvedHeaderMap =>
        /\ DOMAIN headers = {ToLowerCase[n] : n \in inserted}
        /\ \A n \in inserted :
              headers[ToLowerCase[n]] \in HttpValues(n)
        /\ (GithubCapitals \subseteq inserted) =>
              result = Ok([limit |-> FromNat(5000),
                           remaining |-> FromNat(4987),
                           reset |-> DateTime(I64(FALSE, FromNat(1350085394))),
                           window |-> Some(3600),
                           vendor |-> "Github"])

\* the three headers inserted in capitals, and nothing else, have resolved to Github
C19_Witness ==
    /\ ResolvedHeaderMap
    /\ inserted = GithubCapitals
    /\ result.ok
    /\ result.val.vendor = "Github"
    /\ DOMAIN headers = {"x-ratelimit-limit", "x-ratelimit-remaining", "x-ratelimit-reset"}

\* the lines of the block without a separator
LinesWithoutColon == {i \in DOMAIN Lines(raw) : ~split_once(Lines(raw)[i]).some}

\* C20: a raw block with a line without a colon fails with HeaderWithoutColon,
\* carrying that line, on every raw-block ingestion path: HeaderMap::from_raw,
\* CaseSensitiveHeaderMap::from_str and the from_str of the two resolvers.
C20_LineWithoutColonRejected ==
    (/\ pc = "done"
     /\ call \in {"from_raw", "rfc6585_from_str", "retryafter_from_str"}
     /\ LinesWithoutColon # {})
        => result = [ok |-> FALSE, err |-> "HeaderWithoutColon",
                     line |-> Lines(raw)[First(LinesWithoutColon)]]

-----------------------------------------------------------------------------
(* Properties of ResetTime                                                 *)

\* C21: ResetTime::seconds returns a non-negative number of whole seconds from
\* the current instant until the reset: n for Seconds(n), and for DateTime(d) the
\* signed difference d - now, which is never negative, so the cast to usize does
\* not change it, also when d lies before now.
C21_SecondsIsTheSignedDifference ==
    (pc = "done" /\ observed.op = "seconds") =>
        IF Reset.kind = "Seconds" THEN observed.val = Reset.n
        ELSE /\ ~SecondsRemaining(Reset).neg
             /\ observed.val = SecondsRemaining(Reset).mag

\* C26: the order of two ResetTime values follows the ordering rule: two Seconds
\* compare by their counts, two DateTime by their instants, and a Seconds(n)
\* against a DateTime(d) by n and the whole seconds from now until d.
C26_OrderNormalizesMixedShapes ==
    (pc = "done" /\ observed.op = "partial_cmp") =>
        observed.val =
            Some(Ordering(
                IF Reset.kind = "Seconds" /\ observed.other.kind = "Seconds"
                THEN LimbCmp[Reset.n, observed.other.n]
                ELSE IF Reset.kind = "DateTime" /\ observed.other.kind = "DateTime"
                THEN I64Cmp(Reset.d, observed.other.d)
                ELSE I64Cmp(SecondsRemaining(Reset), SecondsRemaining(observed.other))))

-----------------------------------------------------------------------------
(* Properties of the count values                                          *)

\* a constructor of a count type has returned
Parsed == pc = "done" /\ call \in {"Limit_new", "Used_new", "Remaining_new", "ResetTime_new"}

\* the value a constructor wraps the count in
Wrapped(n) == IF call = "ResetTime_new" THEN Seconds(n) ELSE [count |-> n]

AllDigits(s) == s # << >> /\ \A i \in DOMAIN s : s[i] \in Digits

\* C22: every count-valued header (limit, used, remaining, a reset decoded as
\* Seconds) is parsed as a decimal non-negative integer after trimming surrounding
\* whitespace: `  23 ` parses to 23, and a value with any other character before
\* or after the digits (`foo`, `0 foo`, `bar 0`) or a negative number fails with
\* InvalidValue and gives no result.
C22_DigitsAfterTrim ==
    Parsed =>
        IF AllDigits(Trim(raw)) /\ ParseDigits(Trim(raw), UsizeZero).ok
        THEN result = Ok(Wrapped(ParseDigits(Trim(raw), UsizeZero).val))
        ELSE result = Err("InvalidValue")

\* the trimmed value without the one plus sign that may precede the digits
Unsigned(s) == IF s # << >> /\ Head(s) = "+" THEN Tail(s) ELSE s

\* C22, amended: after trimming surrounding whitespace a count value is one
\* optional plus sign followed by decimal digits: `  23 ` and `+23` parse to 23;
\* a value with any other character before or after the digits, an empty value, a
\* negative number or a number above the largest usize fails with InvalidValue.
C22_OptionalPlusThenDigits ==
    Parsed =>
        IF AllDigits(Unsigned(Trim(raw))) /\ ParseDigits(Unsigned(Trim(raw)), UsizeZero).ok
        THEN result = Ok(Wrapped(ParseDigits(Unsigned(Trim(raw)), UsizeZero).val))
        ELSE result = Err("InvalidValue")

\* Limit::new("  23 ") has given the count 23
C22_Witness ==
    /\ pc = "done"
    /\ call = "Limit_new"
    /\ raw = <<" ", " ", "2", "3", " ">>
    /\ result = Ok([count |-> FromNat(23)])

-----------------------------------------------------------------------------
(* Properties of the registry entries                                      *)

\* C23: every registry entry has exactly one of limit_header and used_header:
\* no entry has both, no entry has neither.
C23_ExactlyOneOfLimitAndUsed ==
    \A i \in DOMAIN registry :
        registry[i].limit_header.some # registry[i].used_header.some

\* C23, amended: every registry entry has a limit_header or a used_header, none
\* has neither; the Gitlab entry, and only it, has both.
C23_AtLeastOneOfLimitAndUsed ==
    \A i \in DOMAIN registry :
        /\ registry[i].limit_header.some \/ registry[i].used_header.some
        /\ (registry[i].limit_header.some /\ registry[i].used_header.some)
              <=> registry[i].vendor = "Gitlab"

\* a store has resolved to Gitlab through its used header, the entry with both
C23_Witness ==
    /\ Structured
    /\ result.ok
    /\ result.val.vendor = "Gitlab"
    /\ "RateLimit-Observed" \in DOMAIN headers
    /\ \E i \in DOMAIN registry :
          /\ registry[i].vendor = "Gitlab"
          /\ registry[i].limit_header.some
          /\ registry[i].used_header.some

-----------------------------------------------------------------------------
(* Properties of the assembled result                                      *)

\* the (vendor, window) pairs of the rows of the registry table, in seconds
VendorWindows == {<<"Standard", None>>, <<"Reddit", Some(600)>>, <<"Github", Some(3600)>>,
                  <<"Twitter", Some(900)>>, <<"Vimeo", Some(60)>>, <<"Gitlab", Some(60)>>,
                  <<"Akamai", Some(60)>>}

\* C27: in every successful structured result, window and vendor are those of
\* one registry entry: Standard/none, Reddit/10 min, Github/1 hour,
\* Twitter/15 min, Vimeo/60 s, Gitlab/60 s or Akamai/60 s, for every store.
C27_WindowAndVendorOfOneEntry ==
    (Structured /\ result.ok) =>
        /\ <<result.val.vendor, result.val.window>> \in VendorWindows
        /\ \E i \in DOMAIN registry :
              /\ registry[i].vendor = result.val.vendor
              /\ registry[i].duration = result.val.window

\* a store with headers of several entries has resolved to Reddit with its window
C27_Witness ==
    /\ Structured
    /\ result.ok
    /\ result.val.vendor = "Reddit"
    /\ result.val.window = Some(600)
    /\ trace.remaining # Some("X-Ratelimit-Remaining")

-----------------------------------------------------------------------------
(* Properties of CaseSensitiveHeaderMap::from_str                          *)

\* the lines of the block whose trimmed value HeaderValue::from_str refuses
LinesWithInvalidValue ==
    {i \in DOMAIN Lines(raw) :
        /\ split_once(Lines(raw)[i]).some
        /\ ~HeaderValue_from_str(Trim(split_once(Lines(raw)[i]).val.value)).ok}

\* C28: the ingestion of a raw block into the case-sensitive store is total: the
\* from_str of a resolver returns a result or an error for every block and never
\* aborts, and a line whose value has a character not allowed in a header value
\* gives an error result.
C28_FromStrNeverAborts ==
    (pc = "done" /\ call \in {"rfc6585_from_str", "retryafter_from_str"}) =>
        /\ result # Abort
        /\ LinesWithInvalidValue # {} => result = Err("InvalidHeaderValue")

-----------------------------------------------------------------------------
(* Properties of concurrent calls                                          *)

\* every call has returned (or aborted)
AllDone == \A t \in Threads : threads[t].pc = "done"

\* C24: under any interleaving of calls of the structured resolver on several
\* threads, the first access to the lazily built registry included, every call
\* completes, none waits for the registry lock for ever, and each call returns the
\* result the same call returns when it runs alone on its store.
C24_CallsCompleteAsAlone ==
    /\ <>AllDone
    /\ [](\A t \in Threads :
            threads[t].pc = "done"
                => threads[t].result = rfc6585_RateLimit_new(threads[t].headers))

\* both calls have completed, one of them after all four lookups
C24_Witness ==
    /\ AllDone
    /\ \E t \in Threads : Len(threads[t].locks) = 4 /\ threads[t].result.ok
    /\ \E t \in Threads : threads[t].result = Err("MissingRemaining")

\* C25: when a lookup of a structured resolve (remaining, limit, used or reset)
\* finds the registry lock poisoned, the call fails with the Lock error: the
\* failure is not swallowed, not reported as MissingUsed or MissingLimit, and no
\* further lookup follows it in the same call.
C25_PoisonedLockIsLockError ==
    \A t \in Threads :
        threads[t].pc = "done" =>
            \A i \in DOMAIN threads[t].locks :
                ~threads[t].locks[i].ok
                    => /\ i = Len(threads[t].locks)
                       /\ threads[t].result = Err("Lock")

====
